---- MODULE Spec2Model ----
(***************************************************************************)
(* A model of rollyourown/seo/meta_models.py (django-seo).                *)
(*                                                                         *)
(* Two specifications share the module:                                    *)
(*   Spec    the value-resolution engine: MetadataBaseModel._resolve_value,*)
(*           the _set_context / _resolve_value overrides of the View and   *)
(*           Model metadata classes, and _resolve;                         *)
(*   SpecDb  the identity plugins: get_unique_together, get_model, the     *)
(*           manager built by get_manager and every get_from_path.         *)
(*                                                                         *)
(* Strings are sequences of tokens: "t" is a character of plain text, "lb" *)
(* is a "{" that opens no template tag, "vx" and "vy" are the variable     *)
(* tags {{ x }} and {{ y }} (in Model metadata: {{ <module_name>.x }}).    *)
(* A Python value is a record [t, s]: a string with its tokens, or None.   *)
(***************************************************************************)
EXTENDS Integers, Sequences, FiniteSets, Bags, TLC

VARIABLES
    plugin,      \* which identity plugin built the metadata class
    elements,    \* self._metadata.elements: name -> [editable, populate_from]
    stored,      \* the instance's own field values, by element name
    context,     \* self.__context / self.__instance; "unset" before _set_context
    pc,          \* position of the running _resolve_value call
    arg,         \* the name the outermost call was given
    stack,       \* names of the active _resolve_value frames, innermost last
    retval,      \* value the base method of the innermost frame has returned
    trace,       \* one entry per frame entered: the branch its base body took
    basevals,    \* values returned by MetadataBaseModel._resolve_value, in return order
    rets,        \* values returned by the (possibly overriding) _resolve_value, in return order
    outcome,     \* how the outermost call ended
    result,      \* the value the outermost call returned
    options,     \* [use_sites, use_i18n]
    unique_together,  \* the plugin's class-level unique_together
    model,       \* what get_model built: [built, key_unique, meta_unique_together]
    db,          \* the records of the metadata table, a bag of rows
    last         \* the last manager call and how it ended

resolveVars == <<elements, stored, context, pc, arg, stack, retval, trace,
                 basevals, rets, outcome, result>>
dbVars == <<options, unique_together, model, db, last>>
vars == <<plugin, resolveVars, dbVars>>

\* The recursion limit of the interpreter, scaled down.
MaxDepth == 4

Plugins == {"path", "view", "modelinstance", "model"}

----------------------------------------------------------------------------
(* Values and templates *)

None == [t |-> "none", s |-> <<>>]
Str(s) == [t |-> "str", s |-> s]

Truthy(v) == v.t = "str" /\ v.s # <<>>

BraceTokens == {"lb", "vx", "vy"}

\* '"{" in value'
HasBrace(s) == \E i \in 1..Len(s) : s[i] \in BraceTokens

\* What a context object (a Context, or a model instance put into a fresh
\* Context under its module name) gives for a variable; a variable that is
\* not there renders as the empty string.
ContextObjects == {"none", "c1", "c2"}

Lookup(obj, var) ==
    CASE obj = "c1" /\ var = "vx" -> <<"vy">>
      [] obj = "c1" /\ var = "vy" -> <<"t">>
      [] obj = "c2" /\ var = "vx" -> <<"t", "lb">>
      [] OTHER -> <<>>

RECURSIVE Render(_, _)
\* Template(value).render(context): every variable tag is replaced by the
\* context's value for it, which is inserted as text and not rendered again.
Render(s, obj) ==
    IF s = <<>> THEN <<>>
    ELSE (IF Head(s) \in {"vx", "vy"} THEN Lookup(obj, Head(s)) ELSE <<Head(s)>>)
         \o Render(Tail(s), obj)

\* A variant of _resolve: the model instance is not put into the context.
_resolve_without_instance(value, model_instance, ctx) ==
    IF value.t = "str" /\ HasBrace(value.s)
    THEN Str(Render(value.s, ctx))
    ELSE value

_resolve(value, model_instance, ctx) ==
    IF value.t = "str" /\ HasBrace(value.s)
    THEN Str(Render(value.s, IF model_instance # "none" THEN model_instance ELSE ctx))
    ELSE value

----------------------------------------------------------------------------
(* The metadata definition *)

ElementNames == {"title", "description"}
OtherNames == {"site_name", "helper", "bound_helper", "missing"}
Names == ElementNames \cup OtherNames

StoredValues == {Str(<<>>), Str(<<"t">>), Str(<<"vx">>)}
CallableResults == {None, Str(<<"vx">>)}
LiteralValues == {Str(<<>>), Str(<<"lb", "vy">>)}

NotSet == [kind |-> "NotSet", bound |-> FALSE, val |-> None, name |-> ""]
Literal(v) == [kind |-> "Literal", bound |-> FALSE, val |-> v, name |-> ""]
Callable(b, v) == [kind |-> "callable", bound |-> b, val |-> v, name |-> ""]
FieldName(n) == [kind |-> "name", bound |-> FALSE, val |-> None, name |-> n]

PopulateFroms ==
    {NotSet}
    \cup {Literal(v) : v \in LiteralValues}
    \cup {Callable(b, v) : b \in BOOLEAN, v \in CallableResults}
    \cup {FieldName(n) : n \in Names}

\* The attributes of the metadata definition itself (self._metadata): the
\* elements are kept in .elements, not as attributes.
MetadataAttr(name) ==
    CASE name = "site_name" -> [kind |-> "plain", bound |-> FALSE, val |-> Str(<<"t", "vx">>)]
      [] name = "helper" -> [kind |-> "callable", bound |-> FALSE, val |-> Str(<<"vy">>)]
      [] name = "bound_helper" -> [kind |-> "callable", bound |-> TRUE, val |-> None]
      [] OTHER -> [kind |-> "absent", bound |-> FALSE, val |-> None]

----------------------------------------------------------------------------
(* MetadataBaseModel._resolve_value, one invocation *)

Decision(b, v, n) == [branch |-> b, val |-> v, next |-> n]

\* A variant of ExplicitValue: the stored value counts only when the element
\* has no populate_from.
ExplicitValue_after_populate_from(name) ==
    /\ elements[name].editable
    /\ Truthy(stored[name])
    /\ elements[name].populate_from.kind = "NotSet"

\* "if element.editable: value = getattr(self, name); if value: return value"
ExplicitValue(name) == elements[name].editable /\ Truthy(stored[name])

\* A variant of FromPopulateFrom: a falsy result of the callable is dropped
\* and the lookup goes on.
FromPopulateFrom_truthy_only(populate_from) ==
    CASE populate_from.kind = "callable" /\ Truthy(populate_from.val) ->
            Decision(IF populate_from.bound THEN "call_noargs" ELSE "call_metadata",
                     populate_from.val, "")
      [] populate_from.kind = "Literal" -> Decision("literal", populate_from.val, "")
      [] populate_from.kind = "name" -> Decision("recurse", None, populate_from.name)
      [] OTHER -> Decision("NotSet", None, "")

\* "Otherwise, return an appropriate default value (populate_from)"
FromPopulateFrom(populate_from) ==
    CASE populate_from.kind = "callable" ->
            Decision(IF populate_from.bound THEN "call_noargs" ELSE "call_metadata",
                     populate_from.val, "")
      [] populate_from.kind = "Literal" -> Decision("literal", populate_from.val, "")
      [] populate_from.kind = "name" -> Decision("recurse", None, populate_from.name)
      [] OTHER -> Decision("NotSet", None, "")

\* "If this is not an element, look for an attribute on metadata"
FromAttribute(name) ==
    LET value == MetadataAttr(name) IN
    CASE value.kind = "absent" -> Decision("attr_missing", None, "")
      [] value.kind = "callable" ->
            Decision(IF value.bound THEN "attr_call_noargs" ELSE "attr_call_metadata",
                     value.val, "")
      [] OTHER -> Decision("attr_plain", value.val, "")

BaseBody(name) ==
    IF name \in DOMAIN elements
    THEN IF ExplicitValue(name)
         THEN Decision("explicit", stored[name], "")
         ELSE LET d == FromPopulateFrom(elements[name].populate_from) IN
              IF d.branch = "NotSet" THEN FromAttribute(name) ELSE d
    ELSE FromAttribute(name)

\* The View and Model metadata classes override _set_context and
\* _resolve_value; the Path and ModelInstance classes inherit the base method.
HasOverride(p) == p \in {"view", "model"}

\* The override's "return _resolve(value, ...)".
OverrideReturn(p, value, c) ==
    IF p = "view" THEN _resolve(value, "none", c)
    ELSE IF p = "model" THEN _resolve(value, c, "none")
    ELSE value

----------------------------------------------------------------------------
(* The resolution engine as a state machine *)

_set_context(c) ==
    /\ pc = "idle"
    /\ HasOverride(plugin)
    /\ context' = c
    /\ UNCHANGED <<plugin, elements, stored, pc, arg, stack, retval, trace,
                   basevals, rets, outcome, result, dbVars>>

\* instance._resolve_value(name) is called from outside.
_resolve_value(name) ==
    /\ pc = "idle"
    /\ pc' = "call"
    /\ arg' = name
    /\ stack' = <<name>>
    /\ UNCHANGED <<plugin, elements, stored, context, retval, trace, basevals,
                   rets, outcome, result, dbVars>>

\* The body of MetadataBaseModel._resolve_value for the innermost frame: it
\* returns a value, or calls self._resolve_value(populate_from).
MetadataBaseModel_resolve_value ==
    /\ pc = "call"
    /\ LET name == stack[Len(stack)]
           d == BaseBody(name)
       IN /\ trace' = Append(trace, [name |-> name, branch |-> d.branch,
                                     val |-> d.val, next |-> d.next])
          /\ IF d.branch = "recurse"
             THEN IF Len(stack) < MaxDepth
                  THEN /\ stack' = Append(stack, d.next)
                       /\ UNCHANGED <<pc, retval, basevals, outcome>>
                  ELSE \* maximum recursion depth exceeded
                       /\ pc' = "done"
                       /\ outcome' = "RuntimeError"
                       /\ UNCHANGED <<stack, retval, basevals>>
             ELSE /\ pc' = "ret"
                  /\ retval' = d.val
                  /\ basevals' = Append(basevals, d.val)
                  /\ UNCHANGED <<stack, outcome>>
    /\ UNCHANGED <<plugin, elements, stored, context, arg, rets, result, dbVars>>

\* The innermost frame's _resolve_value returns: the override reads the
\* private context attribute and renders; the caller's base method returns
\* what it got.
Return_resolve_value ==
    /\ pc = "ret"
    /\ IF HasOverride(plugin) /\ context = "unset"
       THEN /\ pc' = "done"
            /\ outcome' = "AttributeError"
            /\ UNCHANGED <<stack, retval, basevals, rets, result>>
       ELSE LET value == OverrideReturn(plugin, retval, context)
                rest == SubSeq(stack, 1, Len(stack) - 1)
            IN /\ rets' = Append(rets, value)
               /\ stack' = rest
               /\ IF rest = <<>>
                  THEN /\ pc' = "done"
                       /\ outcome' = "returned"
                       /\ result' = value
                       /\ UNCHANGED <<retval, basevals>>
                  ELSE /\ retval' = value
                       /\ basevals' = Append(basevals, value)
                       /\ UNCHANGED <<pc, outcome, result>>
    /\ UNCHANGED <<plugin, elements, stored, context, arg, trace, dbVars>>

\* The caller has the result (or the exception); the instance is at rest again.
Finish ==
    /\ pc = "done"
    /\ pc' = "idle"
    /\ arg' = ""
    /\ stack' = <<>>
    /\ retval' = None
    /\ trace' = <<>>
    /\ basevals' = <<>>
    /\ rets' = <<>>
    /\ outcome' = "none"
    /\ result' = None
    /\ UNCHANGED <<plugin, elements, stored, context, dbVars>>

----------------------------------------------------------------------------
(* The identity plugins: unique_together, get_model *)

\* The class attribute unique_together of each plugin.
ClassUniqueTogether(p) ==
    CASE p = "path" -> << <<"_path">> >>
      [] p = "view" -> << <<"_view">> >>
      [] p = "modelinstance" -> << <<"_path">>, <<"_content_type", "_object_id">> >>
      [] OTHER -> << <<"_content_type">> >>

AppendIf(cond, ut_set, field) == IF cond THEN Append(ut_set, field) ELSE ut_set

\* A variant of get_unique_together: only the first ut_set is extended.
get_unique_together_first_only(ut, opts) ==
    [i \in 1..Len(ut) |->
        IF i = 1
        THEN AppendIf(opts.use_i18n, AppendIf(opts.use_sites, ut[i], "_site"), "_language")
        ELSE ut[i]]

\* MetadataPlugin.get_unique_together: each ut_set is copied, then extended.
get_unique_together(ut, opts) ==
    [i \in 1..Len(ut) |->
        AppendIf(opts.use_i18n, AppendIf(opts.use_sites, ut[i], "_site"), "_language")]

\* The field that carries unique=..., if the plugin's model has one.
KeyField(p) ==
    CASE p = "path" -> "_path"
      [] p = "view" -> "_view"
      [] p = "modelinstance" -> "_path"
      [] OTHER -> "none"

\* "unique=not (options.use_sites or options.use_i18n)"
KeyUnique(p, opts) == KeyField(p) # "none" /\ ~(opts.use_sites \/ opts.use_i18n)

\* get_model(options): the abstract model class of the plugin.
get_model ==
    /\ ~model.built
    /\ model' = [built |-> TRUE,
                 key_unique |-> KeyUnique(plugin, options),
                 meta_unique_together |-> get_unique_together(unique_together, options)]
    /\ UNCHANGED <<plugin, resolveVars, options, unique_together, db, last>>

----------------------------------------------------------------------------
(* The table *)

\* The most rows the table holds.
MaxRows == 2

Paths == {"/a", "/b"}
Views == {"home", "about"}
ContentTypes == {"ct1", "ct2"}
SiteIds == {"s1", "s2"}
Languages == {"en", "fr"}

\* A row has every column; "-" is a column the model does not have, "NULL"
\* the SQL NULL of a nullable column the model has.
Rows(p, opts) ==
    [_path : IF p = "path" \/ p = "modelinstance" THEN Paths ELSE {"-"},
     _view : IF p = "view" THEN Views ELSE {"-"},
     _content_type : IF p = "model" THEN ContentTypes
                     ELSE IF p = "modelinstance" THEN {"ct1"} ELSE {"-"},
     _object_id : IF p = "modelinstance" THEN {"1", "2"} ELSE {"-"},
     _site : IF opts.use_sites THEN SiteIds \cup {"NULL"} ELSE {"-"},
     _language : IF opts.use_i18n THEN Languages \cup {"NULL"} ELSE {"-"}]

\* A unique constraint over the fields ut_set rejects row when a stored row
\* agrees with it on every field and none of them is NULL.
Collides(row, ut_set) ==
    \E r \in BagToSet(db) :
        \A i \in 1..Len(ut_set) : r[ut_set[i]] = row[ut_set[i]] /\ row[ut_set[i]] # "NULL"

\* The constraints the built model puts on the table: Meta.unique_together
\* and the field-level unique.
Admissible(row) ==
    /\ \A i \in 1..Len(model.meta_unique_together) :
           ~Collides(row, model.meta_unique_together[i])
    /\ model.key_unique => ~Collides(row, <<KeyField(plugin)>>)

NoCall == [op |-> "none", path |-> "", site |-> [kind |-> "None", v |-> ""],
           language |-> "None", view_name |-> "None", outcome |-> "none",
           queried |-> FALSE, qs |-> EmptyBag, record |-> "none"]

\* A record of the model is saved.
save(row) ==
    /\ model.built
    /\ last.op = "none"
    /\ BagCardinality(db) < MaxRows
    /\ Admissible(row)
    /\ db' = db (+) SetToBag({row})
    /\ UNCHANGED <<plugin, resolveVars, options, unique_together, model, last>>

----------------------------------------------------------------------------
(* The manager *)

\* settings.SITE_ID
SITE_ID == "s1"

\* The Site table: the id of the Site with a domain.
SiteOfDomain(domain) ==
    CASE domain = "one.example" -> "s1"
      [] domain = "two.example" -> "s2"
      [] OTHER -> "DoesNotExist"

SiteNone == [kind |-> "None", v |-> ""]
SiteInstance(id) == [kind |-> "Site", v |-> id]
SiteDomain(d) == [kind |-> "domain", v |-> d]
SiteArgs == {SiteNone, SiteInstance("s2"), SiteDomain("one.example"),
             SiteDomain("nowhere.example"), SiteDomain("")}
LanguageArgs == {"None", "", "en", "fr"}

\* The rows of a queryset that are in keep, as a queryset.
Select(queryset, keep) ==
    [r \in BagToSet(queryset) \cap keep |-> CopiesIn(r, queryset)]

QuerySet(qs) == [outcome |-> "queryset", qs |-> qs]
Raised(e) == [outcome |-> e, qs |-> EmptyBag]

\* A variant of on_current_site: the records without a site are left out.
on_current_site_own_only(site) ==
    LET site_id == IF site.kind = "Site" THEN site.v
                   ELSE IF site.kind # "None"
                        THEN (IF site.v = "" THEN "" ELSE SiteOfDomain(site.v))
                        ELSE SITE_ID
    IN IF site_id = "DoesNotExist" THEN Raised("Site.DoesNotExist")
       ELSE QuerySet(Select(db, {r \in BagToSet(db) : r._site = site_id}))

\* BaseManager.on_current_site
on_current_site(site) ==
    LET site_id == IF site.kind = "Site" THEN site.v
                   ELSE IF site.kind # "None"
                        THEN (IF site.v = "" THEN "" ELSE SiteOfDomain(site.v))
                        ELSE SITE_ID
    IN IF site_id = "DoesNotExist" THEN Raised("Site.DoesNotExist")
       ELSE \* where = ['_site_id IS NULL OR _site_id=%s']
            QuerySet(Select(db, {r \in BagToSet(db) :
                                    r._site = "NULL" \/ r._site = site_id}))

\* queryset.filter(_language=language): the field must be a field of the model.
filter_language(queryset, language) ==
    IF ~options.use_i18n THEN Raised("FieldError")
    ELSE QuerySet(Select(queryset, {r \in BagToSet(queryset) : r._language = language}))

\* "if language:"
LanguageGiven(language) == language # "None" /\ language # ""

\* BaseManager.for_site_and_language, and the override that get_manager
\* puts on _Manager when the sites axis is off.
for_site_and_language(site, language) ==
    LET scoped == IF options.use_sites THEN on_current_site(site) ELSE QuerySet(db)
    IN IF scoped.outcome # "queryset" THEN scoped
       ELSE IF LanguageGiven(language) THEN filter_language(scoped.qs, language)
       ELSE scoped

Found(how, record, queried) ==
    [outcome |-> how, record |-> record, queried |-> queried]

\* queryset.get(<field>=value)
get(queryset, field, value) ==
    LET hits == Select(queryset, {r \in BagToSet(queryset) : r[field] = value})
    IN IF BagCardinality(hits) = 0 THEN Found("DoesNotExist", "none", TRUE)
       ELSE IF BagCardinality(hits) > 1 THEN Found("MultipleObjectsReturned", "none", TRUE)
       ELSE Found("record", CHOOSE r \in BagToSet(hits) : TRUE, TRUE)

PathMetadataPlugin_get_from_path(queryset, path) == get(queryset, "_path", path)

\* A variant of the View lookup: the name is looked up even when it is None.
ViewMetadataPlugin_get_from_path_unchecked(queryset, path, view_name) ==
    get(queryset, "_view", view_name)

\* view_name is what resolve_to_name(path) gave.
ViewMetadataPlugin_get_from_path(queryset, path, view_name) ==
    IF view_name # "None" THEN get(queryset, "_view", view_name)
    ELSE Found("DoesNotExist", "none", FALSE)

ModelInstanceMetadataPlugin_get_from_path(queryset, path) == get(queryset, "_path", path)

ModelMetadataPlugin_get_from_path(queryset, path) == get(queryset, "_content_type", path)

\* The argument get_from_path is given: a path, or a content type for the
\* Model plugin.
PathArgs(p) == IF p = "model" THEN ContentTypes ELSE Paths

\* manager.for_site_and_language(site, language)
Manager_for_site_and_language(site, language) ==
    /\ model.built
    /\ last.op = "none"
    /\ LET scoped == for_site_and_language(site, language)
       IN last' = [NoCall EXCEPT !.op = "for_site_and_language", !.site = site,
                                 !.language = language, !.outcome = scoped.outcome,
                                 !.qs = scoped.qs]
    /\ UNCHANGED <<plugin, resolveVars, options, unique_together, model, db>>

\* _Manager.get_from_path(path, site, language)
Manager_get_from_path(path, site, language, view_name) ==
    /\ model.built
    /\ last.op = "none"
    /\ plugin = "view" \/ view_name = "None"
    /\ LET scoped == for_site_and_language(site, language)
           found == IF scoped.outcome # "queryset"
                    THEN Found(scoped.outcome, "none", FALSE)
                    ELSE CASE plugin = "path" ->
                                PathMetadataPlugin_get_from_path(scoped.qs, path)
                           [] plugin = "view" ->
                                ViewMetadataPlugin_get_from_path(scoped.qs, path, view_name)
                           [] plugin = "modelinstance" ->
                                ModelInstanceMetadataPlugin_get_from_path(scoped.qs, path)
                           [] OTHER ->
                                ModelMetadataPlugin_get_from_path(scoped.qs, path)
       IN last' = [NoCall EXCEPT !.op = "get_from_path", !.path = path, !.site = site,
                                 !.language = language, !.view_name = view_name,
                                 !.outcome = found.outcome, !.queried = found.queried,
                                 !.record = found.record]
    /\ UNCHANGED <<plugin, resolveVars, options, unique_together, model, db>>

\* The caller has the queryset, the record or the exception.
Manager_return ==
    /\ last.op # "none"
    /\ last' = NoCall
    /\ UNCHANGED <<plugin, resolveVars, options, unique_together, model, db>>

----------------------------------------------------------------------------
(* Specifications *)

ElementDefs == [editable : BOOLEAN, populate_from : PopulateFroms]

InitDbIdle ==
    /\ options = [use_sites |-> FALSE, use_i18n |-> FALSE]
    /\ unique_together = ClassUniqueTogether(plugin)
    /\ model = [built |-> FALSE, key_unique |-> FALSE, meta_unique_together |-> <<>>]
    /\ db = EmptyBag
    /\ last = NoCall

InitResolveIdle ==
    /\ context = "unset"
    /\ pc = "idle"
    /\ arg = ""
    /\ stack = <<>>
    /\ retval = None
    /\ trace = <<>>
    /\ basevals = <<>>
    /\ rets = <<>>
    /\ outcome = "none"
    /\ result = None

Init ==
    /\ plugin \in Plugins
    /\ elements \in [ElementNames -> ElementDefs]
    /\ stored \in [ElementNames -> StoredValues]
    /\ \A n \in ElementNames : ~elements[n].editable => stored[n] = Str(<<>>)
    /\ InitResolveIdle
    /\ InitDbIdle

Next ==
    \/ \E c \in ContextObjects : _set_context(c)
    \/ \E name \in Names : _resolve_value(name)
    \/ MetadataBaseModel_resolve_value
    \/ Return_resolve_value
    \/ Finish

Spec == Init /\ [][Next]_vars

InitDb ==
    /\ plugin \in Plugins
    /\ elements = [n \in ElementNames |-> [editable |-> TRUE, populate_from |-> NotSet]]
    /\ stored = [n \in ElementNames |-> Str(<<>>)]
    /\ InitResolveIdle
    /\ options \in [use_sites : BOOLEAN, use_i18n : BOOLEAN]
    /\ unique_together = ClassUniqueTogether(plugin)
    /\ model = [built |-> FALSE, key_unique |-> FALSE, meta_unique_together |-> <<>>]
    /\ db = EmptyBag
    /\ last = NoCall

NextDb ==
    \/ get_model
    \/ \E row \in Rows(plugin, options) : save(row)
    \/ \E site \in SiteArgs, language \in LanguageArgs :
           Manager_for_site_and_language(site, language)
    \/ \E path \in PathArgs(plugin), site \in SiteArgs, language \in LanguageArgs,
          view_name \in Views \cup {"None"} :
           Manager_get_from_path(path, site, language, view_name)
    \/ Manager_return

SpecDb == InitDb /\ [][NextDb]_vars

----------------------------------------------------------------------------
(* Properties of the resolution engine (checked under Spec) *)

HasExplicit(n) ==
    n \in ElementNames /\ elements[n].editable /\ stored[n].t = "str" /\ Len(stored[n].s) > 0

PopulateFromBranches == {"call_noargs", "call_metadata", "literal", "recurse"}

\* C1: an editable element whose stored value is non-empty resolves, in
\* MetadataBaseModel._resolve_value, to exactly that stored value whatever
\* its populate_from is; populate_from is consulted only when the element is
\* not editable or its stored value is empty.
C1_ExplicitValueWins ==
    /\ \A i \in 1..Len(trace) :
          LET n == trace[i].name IN
          /\ HasExplicit(n) =>
                /\ trace[i].branch = "explicit"
                /\ trace[i].val = stored[n]
                /\ i = Len(trace)
          /\ (n \in ElementNames /\ trace[i].branch \in PopulateFromBranches)
                => (~elements[n].editable \/ stored[n].s = <<>>)
    /\ (HasExplicit(arg) /\ pc \in {"ret", "done"}) => basevals = <<stored[arg]>>
    /\ (HasExplicit(arg) /\ pc = "done" /\ ~HasOverride(plugin))
          => (outcome = "returned" /\ result = stored[arg])

C1_Witness ==
    /\ pc = "done"
    /\ outcome = "returned"
    /\ HasExplicit(arg)
    /\ elements[arg].populate_from.kind = "callable"
    /\ elements[arg].populate_from.val # stored[arg]
    /\ basevals = <<stored[arg]>>

\* The attribute of a name on the metadata definition, called if callable,
\* None when there is none.
AttributeEntry(n, e) ==
    LET a == MetadataAttr(n) IN
    /\ a.kind = "absent" => (e.branch = "attr_missing" /\ e.val = None)
    /\ (a.kind = "callable" /\ a.bound) => (e.branch = "attr_call_noargs" /\ e.val = a.val)
    /\ (a.kind = "callable" /\ ~a.bound) => (e.branch = "attr_call_metadata" /\ e.val = a.val)
    /\ a.kind = "plain" => (e.branch = "attr_plain" /\ e.val = a.val)

\* What the instance's own _resolve_value makes of a value its base method
\* resolved: the classes with a context render it, the others pass it on.
Rendered(v) ==
    IF HasOverride(plugin) /\ v.t = "str" /\ (\E i \in 1..Len(v.s) : v.s[i] # "t")
    THEN Str(Render(v.s, context))
    ELSE v

RECURSIVE FallbackValue(_, _)
\* The value the fallback order gives the base method for a name.
FallbackValue(n, fuel) ==
    IF fuel = 0 THEN None
    ELSE IF HasExplicit(n) THEN stored[n]
    ELSE IF n \in ElementNames /\ elements[n].populate_from.kind \in {"callable", "Literal"}
         THEN elements[n].populate_from.val
    ELSE IF n \in ElementNames /\ elements[n].populate_from.kind = "name"
         THEN Rendered(FallbackValue(elements[n].populate_from.name, fuel - 1))
    ELSE MetadataAttr(n).val

\* C2: with no explicit value, a callable populate_from gives its result
\* (called without arguments when bound, with the metadata definition
\* otherwise) even when falsy; a Literal gives its value; another
\* populate_from that is not NotSet gives _resolve_value of that name; NotSet,
\* and every name that is no element, gives the attribute of the metadata
\* definition (called if callable) or None; no later step is tried once an
\* earlier one applies.
C2_FallbackOrder ==
    /\ \A i \in 1..Len(trace) :
          LET e == trace[i]
              n == e.name
          IN IF n \in ElementNames /\ ~HasExplicit(n)
             THEN LET pf == elements[n].populate_from IN
                  /\ pf.kind = "callable" =>
                        /\ e.branch = (IF pf.bound THEN "call_noargs" ELSE "call_metadata")
                        /\ e.val = pf.val
                        /\ i = Len(trace)
                  /\ pf.kind = "Literal" =>
                        (e.branch = "literal" /\ e.val = pf.val /\ i = Len(trace))
                  /\ pf.kind = "name" =>
                        /\ e.branch = "recurse"
                        /\ e.next = pf.name
                        /\ i < Len(trace) => trace[i + 1].name = pf.name
                  /\ pf.kind = "NotSet" => (AttributeEntry(n, e) /\ i = Len(trace))
             ELSE n \notin ElementNames => (AttributeEntry(n, e) /\ i = Len(trace))
    /\ \A j \in 1..Len(basevals) :
          basevals[j] = FallbackValue(trace[Len(trace) - j + 1].name, MaxDepth)

C2_Witness ==
    /\ pc = "done"
    /\ outcome = "returned"
    /\ Len(trace) = 3
    /\ trace[1].branch = "recurse"
    /\ trace[2].branch = "recurse"
    /\ trace[3].branch = "attr_call_metadata"
    /\ Len(basevals) = 3

\* C3 as stated: for every identity plugin the value _resolve_value returns is
\* the resolved value run through template substitution when it is a string
\* containing "{", and the resolved value unchanged otherwise.
C3_TemplatePassEveryPlugin ==
    (pc = "done" /\ outcome = "returned") =>
        LET b == basevals[Len(basevals)] IN
        result = IF b.t = "str" /\ HasBrace(b.s) THEN Str(Render(b.s, context)) ELSE b

\* C3 as amended: the View and Model metadata classes run the resolved value
\* through template substitution when it is a string containing "{", with
\* the context or model instance of _set_context, and return it unchanged
\* otherwise; the Path and ModelInstance classes return the resolved value
\* unchanged in every case.
C3_TemplatePassWhereOverridden ==
    (pc = "done" /\ outcome = "returned") =>
        LET b == basevals[Len(basevals)] IN
        IF plugin \in {"view", "model"}
        THEN /\ context # "unset"
             /\ result = IF b.t = "str" /\ HasBrace(b.s)
                         THEN Str(Render(b.s, context)) ELSE b
        ELSE result = b

C3_Witness ==
    /\ pc = "done"
    /\ outcome = "returned"
    /\ plugin = "model"
    /\ context = "c2"
    /\ HasBrace(basevals[Len(basevals)].s)
    /\ result # basevals[Len(basevals)]

\* C8: on View and Model metadata a _resolve_value call renders with the
\* context of the most recent _set_context, and a call made before any
\* _set_context returns no value and fails with an attribute error.
C8_ContextBeforeResolve ==
    (pc = "done" /\ HasOverride(plugin)) =>
        IF context = "unset"
        THEN outcome = "AttributeError"
        ELSE outcome = "returned" => result = Rendered(basevals[Len(basevals)])

\* C9: _resolve_value terminates with a value or None for every
\* configuration of populate_from references, cycles included, and visits
\* each element at most once.
C9_Terminates ==
    /\ outcome # "RuntimeError"
    /\ \A i, j \in 1..Len(trace) : trace[i].name = trace[j].name => i = j

\* C10: on View and Model metadata, when element A has no explicit value and
\* its populate_from names element B, _resolve_value(A) equals
\* _resolve_value(B): the template substitution is applied once.
C10_RenderedOnce ==
    (/\ pc = "done"
     /\ outcome = "returned"
     /\ HasOverride(plugin)
     /\ Len(trace) >= 2
     /\ trace[1].branch = "recurse"
     /\ trace[2].name \in ElementNames)
        => result = rets[Len(rets) - 1]

----------------------------------------------------------------------------
(* Properties of the identity plugins and the manager (checked under SpecDb) *)

\* The site a call asks for: a Site instance's id, the id of the Site with
\* the domain, settings.SITE_ID for None.
RequestedSite(site) ==
    CASE site.kind = "Site" -> site.v
      [] site.kind = "None" -> SITE_ID
      [] OTHER -> IF \E id \in SiteIds : SiteOfDomain(site.v) = id
                  THEN SiteOfDomain(site.v) ELSE "no site"

InScope(r, site, language) ==
    /\ r._site \in SiteIds => r._site = RequestedSite(site)
    /\ language \in Languages => r._language = language

\* C4: for_site_and_language returns exactly the records whose _site is NULL
\* or the requested site and, when a non-empty language is given, whose
\* _language is that language; never a record of another site; no language
\* restriction for an empty language.
C4_SiteLanguageScope ==
    (last.op = "for_site_and_language" /\ last.outcome = "queryset") =>
        \A r \in BagToSet(db) \cup BagToSet(last.qs) :
            CopiesIn(r, last.qs) =
                IF InScope(r, last.site, last.language) THEN CopiesIn(r, db) ELSE 0

C4_Witness ==
    /\ last.op = "for_site_and_language"
    /\ last.outcome = "queryset"
    /\ last.language \in Languages
    /\ \E r \in BagToSet(db) : r._site \in SiteIds /\ r._site # RequestedSite(last.site)
    /\ \E r \in BagToSet(last.qs) : r._site = "NULL"

\* C5: in a table that satisfies the plugin's uniqueness constraints,
\* get_from_path of the Path, ModelInstance and Model plugins matches at most
\* one scoped record: it never fails because several records match.
C5_AtMostOneMatch ==
    (last.op = "get_from_path" /\ plugin \in {"path", "modelinstance", "model"})
        => last.outcome # "MultipleObjectsReturned"

\* C6: get_unique_together gives one tuple per entry of the plugin's
\* unique_together, in order, each the entry's fields followed by "_site" iff
\* use_sites and then "_language" iff use_i18n; the class-level
\* unique_together is left as it was; the key field (_path / _view) is unique
\* exactly when both options are off, that is when its tuple was not extended.
C6_UniqueTogetherExtended ==
    model.built =>
        LET base == ClassUniqueTogether(plugin)
            got == model.meta_unique_together
            axes == (IF options.use_sites THEN <<"_site">> ELSE <<>>)
                    \o (IF options.use_i18n THEN <<"_language">> ELSE <<>>)
        IN /\ Len(got) = Len(base)
           /\ \A i \in 1..Len(base) :
                 /\ Len(got[i]) = Len(base[i]) + Len(axes)
                 /\ SubSeq(got[i], 1, Len(base[i])) = base[i]
                 /\ SubSeq(got[i], Len(base[i]) + 1, Len(got[i])) = axes
           /\ unique_together = base
           /\ plugin # "model" =>
                 /\ model.key_unique <=> (~options.use_sites /\ ~options.use_i18n)
                 /\ model.key_unique <=> (got[1] = base[1])

C6_Witness ==
    /\ model.built
    /\ plugin = "modelinstance"
    /\ options.use_sites
    /\ options.use_i18n
    /\ model.meta_unique_together[2] = <<"_content_type", "_object_id", "_site", "_language">>

\* C7: the View lookup raises DoesNotExist, without querying a record, when
\* the path resolves to no view name; when it resolves to a name, the record
\* it returns is the record of the scoped queryset whose _view is that name.
C7_ViewLookup ==
    (/\ plugin = "view"
     /\ last.op = "get_from_path"
     /\ last.outcome \notin {"Site.DoesNotExist", "FieldError"}) =>
        LET hits == {r \in BagToSet(db) :
                        /\ InScope(r, last.site, last.language)
                        /\ r._view = last.view_name}
        IN /\ last.view_name = "None" => (last.outcome = "DoesNotExist" /\ ~last.queried)
           /\ last.outcome = "record" =>
                 (last.view_name # "None" /\ last.record \in hits)
           /\ (last.view_name # "None" /\ hits = {}) => last.outcome = "DoesNotExist"
           /\ (\E r \in hits : hits = {r} /\ CopiesIn(r, db) = 1) => last.outcome = "record"

C7_Witness ==
    /\ plugin = "view"
    /\ last.op = "get_from_path"
    /\ last.view_name = "None"
    /\ last.outcome = "DoesNotExist"
    /\ ~last.queried
    /\ BagCardinality(db) = 2

====
